---------------------------- MODULE Spec2Model ----------------------------
(***************************************************************************)
(* Telemetry simulation, threshold alerting and irrigation duty-cycle      *)
(* engine of backend/app/sensors.py (class SensorManager), with the parts  *)
(* of backend/app/models.py and backend/app/database.py it uses.           *)
(*                                                                         *)
(* Numbers.  Every sensor value, threshold, noise draw and drift offset is *)
(* an integer count of 1/10000 of the channel's unit (28.0 is 280000), so  *)
(* that the sums, clamps, roundings and comparisons of the code are exact  *)
(* integer operations here.  Time is counted in hours, from the midnight   *)
(* before the engine was constructed; datetime.utcnow() is the variable    *)
(* now.                                                                    *)
(***************************************************************************)
EXTENDS Integers, Sequences, FiniteSets, TLC

VARIABLES
    now,                 \* datetime.utcnow(), in hours
    monitoring_active,   \* SensorManager.monitoring_active
    current_readings,    \* SensorManager.current_readings
    trends,              \* SensorManager.trends
    irrigation_status,   \* SensorManager.irrigation_status
    alerts,              \* SensorManager.alerts
    db_manager,          \* SensorManager.db_manager (None, or its db_initialized)
    db_rows,             \* rows of table sensor_readings
    tasks,               \* the asyncio tasks created by start_monitoring
    next_id,             \* source of fresh alert ids (uuid4)
    history              \* observations of the run, read only by properties

vars == <<now, monitoring_active, current_readings, trends, irrigation_status,
          alerts, db_manager, db_rows, tasks, next_id, history>>

-----------------------------------------------------------------------------
(* Bounds of the model.                                                    *)

MaxClock == 180          \* the clock stops advancing at this hour
MaxGenerations == 2      \* reading generations after construction
MaxCommands == 2         \* irrigation commands issued by the API
MaxDuration == 2         \* longest duration_minutes of a command
MaxFailures == 1         \* exceptions raised inside loop bodies
MaxStarts == 2           \* calls of start_monitoring at any time

-----------------------------------------------------------------------------
(* Fixed-point helpers.                                                    *)

Units(x) == x * 10000

Min2(a, b) == IF a < b THEN a ELSE b
Max2(a, b) == IF a > b THEN a ELSE b

\* Clamp without its upper bound: max(lo, x).
Clamp_without_upper_bound(lo, hi, x) == Max2(lo, x)

\* max(lo, min(hi, x)) as written at each channel of the generator.
Clamp(lo, hi, x) == Max2(lo, Min2(hi, x))

\* round(x, ndigits): to the nearest multiple of q, ties to the even multiple.
Round(x, q) ==
    LET r == x % q
        f == x - r
    IN  IF 2 * r < q THEN f
        ELSE IF 2 * r > q THEN f + q
        ELSE IF (f \div q) % 2 = 0 THEN f ELSE f + q

-----------------------------------------------------------------------------
(* Channel model.                                                          *)

Channels ==
    {"soil_moisture", "soil_temperature", "soil_ph", "soil_conductivity",
     "air_temperature", "humidity", "atmospheric_pressure",
     "nitrogen", "phosphorus", "potassium"}

\* SensorManager.base_values
base_values ==
    [soil_moisture |-> 500000, soil_temperature |-> 240000, soil_ph |-> 68000,
     soil_conductivity |-> 8500000, air_temperature |-> 280000,
     humidity |-> 650000, atmospheric_pressure |-> 10132000,
     nitrogen |-> 1200000, phosphorus |-> 450000, potassium |-> 1800000]

\* The max(lo, min(hi, ...)) bounds written at each channel of the generator.
clamp_range ==
    [soil_moisture |-> [min |-> Units(10), max |-> Units(90)],
     soil_temperature |-> [min |-> Units(5), max |-> Units(45)],
     soil_ph |-> [min |-> Units(4), max |-> Units(9)],
     soil_conductivity |-> [min |-> Units(100), max |-> Units(3000)],
     air_temperature |-> [min |-> Units(-10), max |-> Units(50)],
     humidity |-> [min |-> Units(20), max |-> Units(95)],
     atmospheric_pressure |-> [min |-> Units(980), max |-> Units(1040)],
     nitrogen |-> [min |-> Units(50), max |-> Units(250)],
     phosphorus |-> [min |-> Units(20), max |-> Units(80)],
     potassium |-> [min |-> Units(100), max |-> Units(300)]]

\* The quantum round(value, ndigits) rounds to when the SensorReading is
\* built: 1 decimal, 2 for soil_ph, 0 for soil_conductivity; the NPK values
\* are stored as computed (quantum 1).
round_quantum ==
    [soil_moisture |-> 1000, soil_temperature |-> 1000, soil_ph |-> 100,
     soil_conductivity |-> 10000, air_temperature |-> 1000, humidity |-> 1000,
     atmospheric_pressure |-> 1000,
     nitrogen |-> 1, phosphorus |-> 1, potassium |-> 1]

\* ThresholdSettings(): the defaults of the eight channels that have one.
ThresholdSettings ==
    [soil_moisture |-> [min |-> Units(30), max |-> Units(70)],
     soil_temperature |-> [min |-> Units(15), max |-> Units(35)],
     soil_ph |-> [min |-> 60000, max |-> 75000],
     air_temperature |-> [min |-> Units(10), max |-> Units(40)],
     humidity |-> [min |-> Units(40), max |-> Units(80)],
     nitrogen |-> [min |-> Units(100), max |-> Units(150)],
     phosphorus |-> [min |-> Units(30), max |-> Units(60)],
     potassium |-> [min |-> Units(150), max |-> Units(200)]]

\* The sensor names of the list `checks` of _check_thresholds, in its order.
checks ==
    <<"soil_moisture", "soil_temperature", "soil_ph", "air_temperature",
      "humidity", "nitrogen", "phosphorus", "potassium">>

-----------------------------------------------------------------------------
(* Waveform generator: _generate_realistic_reading.                        *)

\* 1000 * sin(15 degrees * k), k = 0..23: one value per hour of the day.
SinTable ==
    <<0, 259, 500, 707, 866, 966, 1000, 966, 866, 707, 500, 259,
      0, -259, -500, -707, -866, -966, -1000, -966, -866, -707, -500, -259>>

\* 1000 * |sin(7.5 degrees * k)|, k = 0..23.
AbsHalfSinTable ==
    <<0, 131, 259, 383, 500, 609, 707, 793, 866, 924, 966, 991,
      1000, 991, 966, 924, 866, 793, 707, 609, 500, 383, 259, 131>>

hour_of_day(t) == t % 24

\* math.sin((day_progress - 0.25) * 2 * math.pi) * 5
temp_variation(h) == 50 * SinTable[((h + 18) % 24) + 1]

\* -temp_variation * 0.8
humidity_variation(h) == -((temp_variation(h) * 8) \div 10)

\* -abs(math.sin(day_progress * math.pi)) * 10
moisture_variation(h) == -(100 * AbsHalfSinTable[h + 1])

\* The cyclic term added to each channel's base value.
variation(c, h) ==
    CASE c = "soil_moisture" -> moisture_variation(h)
      [] c = "soil_temperature" -> (temp_variation(h) * 3) \div 10
      [] c = "air_temperature" -> temp_variation(h)
      [] c = "humidity" -> humidity_variation(h)
      [] OTHER -> 0

\* One channel of the reading: base + cycle + noise + trend, clamped to the
\* channel's range, then rounded when the SensorReading is built.
channel_value(c, h, noise, trend) ==
    Round(Clamp(clamp_range[c].min, clamp_range[c].max,
                base_values[c] + variation(c, h) + noise + trend),
          round_quantum[c])

\* The SensorReading assigned to self.current_readings; noise[c] is the
\* random.gauss draw of channel c.
new_reading(t, noise, tr) ==
    [timestamp |-> t,
     value |-> [c \in Channels |->
                  channel_value(c, hour_of_day(t), noise[c], tr[c])]]

\* The trend update without its `max(-5, min(5, ...))`.
new_trends_unlimited(tr, step) == [c \in Channels |-> tr[c] + step[c]]

\* The trend update after the reading is built; step[c] is the
\* random.gauss(0, 0.01) draw of channel c.
new_trends(tr, step) ==
    [c \in Channels |-> Clamp(Units(-5), Units(5), tr[c] + step[c])]

-----------------------------------------------------------------------------
(* Threshold evaluator: _check_thresholds.                                 *)

\* An Optional[...] field holds None or Some(v); the(o) is the v of Some(v).
None == << >>
Some(v) == <<v>>
the(o) == o[1]

\* threshold * 0.8 and threshold * 1.2 are products of IEEE-754 doubles.  A
\* product is the double nearest to the exact result of the two doubles,
\* and 0.8 and 1.2 are not exact doubles: the product can lie one step above
\* or below the double that a reading of the same decimal value holds.  With
\* the default thresholds this happens once: 6.0 * 0.8 is 4.800000000000001,
\* above the reading 4.8; every other default product is the double of its
\* decimal value.  The result is the sign of (product - decimal value).
float_product_excess(bound, tenths) ==
    IF bound = 60000 /\ tenths = 8 THEN 1 ELSE 0

\* value < bound * (tenths / 10), as the float comparison decides it.
less_than_product(value, bound, tenths) ==
    20 * value < 2 * bound * tenths + float_product_excess(bound, tenths)

\* value > bound * (tenths / 10), as the float comparison decides it.
greater_than_product(value, bound, tenths) ==
    20 * value > 2 * bound * tenths + float_product_excess(bound, tenths)

\* AlertSeverity.HIGH if value < threshold['min'] * 0.8 else MODERATE
low_severity(value, threshold) ==
    IF less_than_product(value, threshold.min, 8) THEN "high" ELSE "moderate"

\* AlertSeverity.HIGH if value > threshold['max'] * 1.2 else MODERATE
high_severity(value, threshold) ==
    IF greater_than_product(value, threshold.max, 12) THEN "high" ELSE "moderate"

\* An AlertData whose message also tells when the alert was raised.
AlertData_timed(id, sensor_name, direction, severity, value, threshold, t) ==
    [id |-> id,
     type |-> <<sensor_name, direction>>,
     severity |-> severity,
     title |-> <<direction, sensor_name>>,
     message |-> <<sensor_name, direction, value,
                   IF direction = "low" THEN threshold.min ELSE threshold.max,
                   t>>,
     timestamp |-> t,
     sensor_type |-> sensor_name,
     sensor_value |-> value,
     threshold_min |-> threshold.min,
     threshold_max |-> threshold.max,
     resolved |-> FALSE,
     resolved_at |-> None]

\* The AlertData built in either branch; direction is "low" or "high".  The
\* f-strings of type, title and message are kept as tuples of their parts.
AlertData(id, sensor_name, direction, severity, value, threshold, t) ==
    [id |-> id,
     type |-> <<sensor_name, direction>>,
     severity |-> severity,
     title |-> <<direction, sensor_name>>,
     message |-> <<sensor_name, direction, value,
                   IF direction = "low" THEN threshold.min ELSE threshold.max>>,
     timestamp |-> t,
     sensor_type |-> sensor_name,
     sensor_value |-> value,
     threshold_min |-> threshold.min,
     threshold_max |-> threshold.max,
     resolved |-> FALSE,
     resolved_at |-> None]

\* The branches with the bounds of the threshold counted as out of range.
breach_at_bounds(value, threshold) ==
    IF value <= threshold.min THEN "low"
    ELSE IF value >= threshold.max THEN "high"
    ELSE "none"

\* `if value < threshold['min']` ... `elif value > threshold['max']`: the
\* branch taken for a value.
breach(value, threshold) ==
    IF value < threshold.min THEN "low"
    ELSE IF value > threshold.max THEN "high"
    ELSE "none"

\* The severity computed in the branch taken.
severity_of(direction, value, threshold) ==
    IF direction = "low" THEN low_severity(value, threshold)
    ELSE high_severity(value, threshold)

\* The loop over `checks` from its i-th entry on: the list current_alerts.
RECURSIVE current_alerts(_, _, _, _, _)
current_alerts(i, reading, thresholds, t, id) ==
    IF i > Len(checks) THEN << >>
    ELSE LET sensor_name == checks[i]
             value == reading.value[sensor_name]
             threshold == thresholds[sensor_name]
             direction == breach(value, threshold)
         IN  IF direction = "none"
             THEN current_alerts(i + 1, reading, thresholds, t, id)
             ELSE <<AlertData(id, sensor_name, direction,
                              severity_of(direction, value, threshold),
                              value, threshold, t)>>
                  \o current_alerts(i + 1, reading, thresholds, t, id + 1)

\* [alert for alert in self.alerts if alert.timestamp > cutoff_time]
recent_alerts(ledger, cutoff_time) ==
    SelectSeq(ledger, LAMBDA alert : alert.timestamp > cutoff_time)

\* current_alerts of one call of _check_thresholds; the call returns at
\* once when there is no current reading.
new_alerts(reading, thresholds, t, id) ==
    IF reading = None THEN << >>
    ELSE current_alerts(1, the(reading), thresholds, t, id)

\* The assignment without its filter: the whole ledger, then the new alerts.
checked_alerts_without_pruning(ledger, reading, thresholds, t, id) ==
    IF reading = None THEN ledger
    ELSE ledger \o new_alerts(reading, thresholds, t, id)

\* The assignment dropping the alerts of the channels that are back within
\* their thresholds.
checked_alerts_of_open_breaches(ledger, reading, thresholds, t, id) ==
    IF reading = None THEN ledger
    ELSE SelectSeq(recent_alerts(ledger, t - 24),
                   LAMBDA alert :
                     breach(the(reading).value[alert.sensor_type],
                            thresholds[alert.sensor_type]) # "none")
         \o new_alerts(reading, thresholds, t, id)

\* The assignment keeping, for a channel with a new alert, only that one.
checked_alerts_one_per_channel(ledger, reading, thresholds, t, id) ==
    IF reading = None THEN ledger
    ELSE LET fresh == new_alerts(reading, thresholds, t, id)
         IN  SelectSeq(recent_alerts(ledger, t - 24),
                       LAMBDA alert :
                         \A k \in 1..Len(fresh) :
                           fresh[k].sensor_type # alert.sensor_type)
             \o fresh

\* The value _check_thresholds assigns to self.alerts: the alerts of the last
\* 24 hours followed by the new ones.
checked_alerts(ledger, reading, thresholds, t, id) ==
    IF reading = None THEN ledger
    ELSE recent_alerts(ledger, t - 24) \o new_alerts(reading, thresholds, t, id)

\* get_active_alerts
get_active_alerts(ledger) == SelectSeq(ledger, LAMBDA alert : ~alert.resolved)

\* The sweep without a retention: every alert created up to now goes.
swept_alerts_without_retention(ledger, t) == recent_alerts(ledger, t)

\* The sweep with the 24 hours of _check_thresholds as its retention.
swept_alerts_of_last_day(ledger, t) == recent_alerts(ledger, t - 24)

\* The value the alert loop assigns to self.alerts: timedelta(days=7).
swept_alerts(ledger, t) == recent_alerts(ledger, t - 7 * 24)

-----------------------------------------------------------------------------
(* Irrigation controller: execute_irrigation and the body of               *)
(* _irrigation_management_loop.                                            *)

\* IrrigationStatus(is_active=False)
InitialIrrigationStatus ==
    [is_active |-> FALSE, current_zone |-> None, start_time |-> None,
     duration_minutes |-> None, remaining_minutes |-> None,
     last_activation |-> None, total_runtime_today |-> 0,
     water_usage_liters |-> None]

\* IrrigationCommand(activate, duration_minutes=None, zone_id=None)
IrrigationCommand(activate, duration_minutes, zone_id) ==
    [activate |-> activate, duration_minutes |-> duration_minutes,
     zone_id |-> zone_id]

\* execute_irrigation that leaves a running irrigation alone: an activate
\* command is dropped while the status is active.
execute_irrigation_rejecting_rerun(status, command, t) ==
    IF command.activate
    THEN IF status.is_active THEN status
         ELSE [status EXCEPT
                 !.is_active = TRUE,
                 !.start_time = Some(t),
                 !.duration_minutes = command.duration_minutes,
                 !.remaining_minutes = command.duration_minutes,
                 !.current_zone = IF command.zone_id \in {None, Some("")}
                                  THEN Some("main") ELSE command.zone_id]
    ELSE [status EXCEPT
            !.is_active = FALSE,
            !.last_activation = status.start_time,
            !.start_time = None,
            !.duration_minutes = None,
            !.remaining_minutes = None]

\* execute_irrigation that records the time of the stop, not of the start,
\* as last_activation.
execute_irrigation_recording_stop(status, command, t) ==
    IF command.activate
    THEN [status EXCEPT
            !.is_active = TRUE,
            !.start_time = Some(t),
            !.duration_minutes = command.duration_minutes,
            !.remaining_minutes = command.duration_minutes,
            !.current_zone = IF command.zone_id \in {None, Some("")}
                             THEN Some("main") ELSE command.zone_id]
    ELSE [status EXCEPT
            !.is_active = FALSE,
            !.last_activation = Some(t),
            !.start_time = None,
            !.duration_minutes = None,
            !.remaining_minutes = None]

\* execute_irrigation that forgets the zone of the command.
execute_irrigation_in_main_zone(status, command, t) ==
    IF command.activate
    THEN [status EXCEPT
            !.is_active = TRUE,
            !.start_time = Some(t),
            !.duration_minutes = command.duration_minutes,
            !.remaining_minutes = command.duration_minutes,
            !.current_zone = Some("main")]
    ELSE [status EXCEPT
            !.is_active = FALSE,
            !.last_activation = status.start_time,
            !.start_time = None,
            !.duration_minutes = None,
            !.remaining_minutes = None]

\* execute_irrigation adding the minutes of the run it ends to the day's total.
execute_irrigation_counting_runtime(status, command, t) ==
    IF command.activate
    THEN [status EXCEPT
            !.is_active = TRUE,
            !.start_time = Some(t),
            !.duration_minutes = command.duration_minutes,
            !.remaining_minutes = command.duration_minutes,
            !.current_zone = IF command.zone_id \in {None, Some("")}
                             THEN Some("main") ELSE command.zone_id]
    ELSE [status EXCEPT
            !.is_active = FALSE,
            !.last_activation = status.start_time,
            !.start_time = None,
            !.duration_minutes = None,
            !.remaining_minutes = None,
            !.total_runtime_today =
                IF status.duration_minutes = None THEN @
                ELSE @ + the(status.duration_minutes)]

\* execute_irrigation whose deactivate branch leaves the countdown in place.
execute_irrigation_keeping_countdown(status, command, t) ==
    IF command.activate
    THEN [status EXCEPT
            !.is_active = TRUE,
            !.start_time = Some(t),
            !.duration_minutes = command.duration_minutes,
            !.remaining_minutes = command.duration_minutes,
            !.current_zone = IF command.zone_id \in {None, Some("")}
                             THEN Some("main") ELSE command.zone_id]
    ELSE [status EXCEPT
            !.is_active = FALSE,
            !.last_activation = status.start_time,
            !.start_time = None,
            !.duration_minutes = None]

\* execute_irrigation(command) at time t.
execute_irrigation(status, command, t) ==
    IF command.activate
    THEN [status EXCEPT
            !.is_active = TRUE,
            !.start_time = Some(t),
            !.duration_minutes = command.duration_minutes,
            !.remaining_minutes = command.duration_minutes,
            !.current_zone = IF command.zone_id \in {None, Some("")}
                             THEN Some("main") ELSE command.zone_id]
    ELSE [status EXCEPT
            !.is_active = FALSE,
            !.last_activation = status.start_time,
            !.start_time = None,
            !.duration_minutes = None,
            !.remaining_minutes = None]

\* Python truth of an Optional[int]: None and 0 are false.
truthy(o) == o # None /\ the(o) # 0

\* The decrement reached whenever the status is active.
tick_raises_when_active(status) ==
    status.is_active /\ status.remaining_minutes = None

\* Whether `remaining_minutes -= 1` raises TypeError: it is reached only
\* behind `is_active and remaining_minutes`, and raises on None.
tick_raises(status) ==
    /\ status.is_active /\ truthy(status.remaining_minutes)
    /\ status.remaining_minutes = None

\* The tick with its auto-stop put off to the next pass: one pass counts
\* down, the pass after it stops a run it finds at 0.
irrigation_tick_deferring_stop(status, t) ==
    IF /\ status.is_active
       /\ status.remaining_minutes # None
       /\ the(status.remaining_minutes) <= 0
    THEN execute_irrigation(status, IrrigationCommand(FALSE, None, None), t)
    ELSE IF status.is_active /\ truthy(status.remaining_minutes)
    THEN [status EXCEPT
            !.remaining_minutes = Some(the(status.remaining_minutes) - 1)]
    ELSE status

\* The tick with its auto-stop outside the `if`: it runs the deactivate
\* branch whenever there is nothing to count down.
irrigation_tick_stopping_when_idle(status, t) ==
    IF status.is_active /\ truthy(status.remaining_minutes)
    THEN LET counted ==
                 [status EXCEPT
                    !.remaining_minutes = Some(the(status.remaining_minutes) - 1)]
         IN  IF the(counted.remaining_minutes) <= 0
             THEN execute_irrigation(counted,
                                     IrrigationCommand(FALSE, None, None), t)
             ELSE counted
    ELSE execute_irrigation(status, IrrigationCommand(FALSE, None, None), t)

\* The tick with its auto-stop test off by one: `< 0` for `<= 0`.
irrigation_tick_stopping_late(status, t) ==
    IF status.is_active /\ truthy(status.remaining_minutes)
    THEN LET counted ==
                 [status EXCEPT
                    !.remaining_minutes = Some(the(status.remaining_minutes) - 1)]
         IN  IF the(counted.remaining_minutes) < 0
             THEN [counted EXCEPT !.is_active = FALSE,
                                  !.last_activation = counted.start_time,
                                  !.start_time = None,
                                  !.duration_minutes = None,
                                  !.remaining_minutes = None]
             ELSE counted
    ELSE status

\* One pass of the try block of _irrigation_management_loop, up to its sleep.
irrigation_tick(status, t) ==
    IF status.is_active /\ truthy(status.remaining_minutes)
    THEN LET counted ==
                 [status EXCEPT
                    !.remaining_minutes = Some(the(status.remaining_minutes) - 1)]
         IN  IF the(counted.remaining_minutes) <= 0
             THEN execute_irrigation(counted,
                                     IrrigationCommand(FALSE, None, None), t)
             ELSE counted
    ELSE status

-----------------------------------------------------------------------------
(* Scheduler: the three loops as asyncio tasks.                            *)
(*                                                                         *)
(* A task runs from one await to the next without interleaving.  Its pc    *)
(* says where it is suspended:                                             *)
(*   created   scheduled by asyncio.create_task, not run yet               *)
(*   sleeping  in the asyncio.sleep that ends the try block                *)
(*   backoff   in the asyncio.sleep of the except clause                   *)
(*   woken     its sleep has elapsed; scheduled to resume at the while test*)
(*   storing   reading loop only: inside store_sensor_reading, awaiting    *)
(*             aiosqlite                                                   *)
(*   stored    the database write has ended; scheduled to resume           *)
(*   done      the while test was false; the coroutine returned            *)
(***************************************************************************)

Loops == <<"reading", "alert", "irrigation">>

\* asyncio.create_task(self._<loop>())
create_task(loop) ==
    [loop |-> loop, pc |-> "created", reading |-> None, store_ok |-> TRUE,
     raised |-> FALSE]

\* The three create_task calls of start_monitoring, in their order.
created_tasks == [k \in 1..Len(Loops) |-> create_task(Loops[k])]

AtWhileTest(task) == task.pc \in {"created", "woken"}

\* An exception that is not caught inside the loop: the task ends.
on_exception_ending_task(task) ==
    [task EXCEPT !.pc = "done", !.reading = None, !.raised = TRUE]

\* The except clause of each loop: log, then asyncio.sleep(5) or (30).
on_exception(task) ==
    [task EXCEPT !.pc = "backoff", !.reading = None, !.raised = TRUE]

\* store_sensor_reading without its try/except: an error of the write
\* reaches the reading loop.
store_returns_unless_failed(ok) == ok

\* The try/except of store_sensor_reading: an error of the write is logged
\* and the call returns to the reading loop either way.
store_returns(ok) == TRUE

\* `if self.db_manager` and `if not self.db_initialized`: whether the call of
\* store_sensor_reading reaches the database, and so suspends the task.
store_suspends(db) == db # None /\ the(db).db_initialized

\* The database write as a blocking call inside the coroutine.
blocks_event_loop_while_storing(pc) == pc = "storing"

\* Whether a task suspended at pc keeps the event loop from running the
\* other tasks: every wait of the loops is an await.
blocks_event_loop(pc) == FALSE

EventLoopFree == \A k \in 1..Len(tasks) : ~blocks_event_loop(tasks[k].pc)

\* The history records the last step taken, as <<action, task>>.
Observe(label) == [history EXCEPT !.last = label]

\* datetime.utcnow() moves on by d hours between two steps of the program.
AdvanceClock(d) ==
    /\ now + d <= MaxClock
    /\ now' = now + d
    /\ history' = Observe(<<"AdvanceClock", 0>>)
    /\ UNCHANGED <<monitoring_active, current_readings, trends,
                   irrigation_status, alerts, db_manager, db_rows, tasks,
                   next_id>>

\* start_monitoring, called once by lifespan at startup.
StartMonitoring ==
    /\ tasks = << >>
    /\ monitoring_active' = TRUE
    /\ tasks' = created_tasks
    /\ history' = Observe(<<"StartMonitoring", 0>>)
    /\ UNCHANGED <<now, current_readings, trends, irrigation_status, alerts,
                   db_manager, db_rows, next_id>>

\* stop_monitoring, called once by lifespan at shutdown.
StopMonitoring ==
    /\ tasks # << >>
    /\ monitoring_active
    /\ monitoring_active' = FALSE
    /\ history' = [Observe(<<"StopMonitoring", 0>>) EXCEPT !.stop_called = TRUE]
    /\ UNCHANGED <<now, current_readings, trends, irrigation_status, alerts,
                   db_manager, db_rows, tasks, next_id>>

\* start_monitoring called at any time: it sets the flag and creates three
\* more tasks, whatever tasks there are.
CallStartMonitoring ==
    /\ Len(tasks) < MaxStarts * Len(Loops)
    /\ EventLoopFree
    /\ monitoring_active' = TRUE
    /\ tasks' = tasks \o created_tasks
    /\ history' = Observe(<<"CallStartMonitoring", 0>>)
    /\ UNCHANGED <<now, current_readings, trends, irrigation_status, alerts,
                   db_manager, db_rows, next_id>>

\* stop_monitoring called at any time: it clears the flag.
CallStopMonitoring ==
    /\ EventLoopFree
    /\ monitoring_active
    /\ monitoring_active' = FALSE
    /\ history' = [Observe(<<"CallStopMonitoring", 0>>) EXCEPT
                     !.stop_called = TRUE]
    /\ UNCHANGED <<now, current_readings, trends, irrigation_status, alerts,
                   db_manager, db_rows, tasks, next_id>>

\* The timer of an asyncio.sleep fires: the task is scheduled to resume.
SleepElapses(i) ==
    /\ tasks[i].pc \in {"sleeping", "backoff"}
    /\ tasks' = [tasks EXCEPT ![i].pc = "woken"]
    /\ history' = Observe(<<"SleepElapses", i>>)
    /\ UNCHANGED <<now, monitoring_active, current_readings, trends,
                   irrigation_status, alerts, db_manager, db_rows, next_id>>

\* `while self.monitoring_active` is false: the loop returns.
LoopExits(i) ==
    /\ AtWhileTest(tasks[i])
    /\ EventLoopFree
    /\ ~monitoring_active
    /\ tasks' = [tasks EXCEPT ![i].pc = "done"]
    /\ history' = Observe(<<"LoopExits", i>>)
    /\ UNCHANGED <<now, monitoring_active, current_readings, trends,
                   irrigation_status, alerts, db_manager, db_rows, next_id>>

-----------------------------------------------------------------------------
(* The bodies of the three loops, the API commands and the draws.          *)

\* What one call of _check_thresholds leaves in the history.
Evaluated(h, reading, ledger, t, id) ==
    [h EXCEPT !.evaluated = reading,
              !.produced = new_alerts(reading, ThresholdSettings, t, id),
              !.before = ledger,
              !.earlier = IF h.evaluated = None THEN None
                          ELSE Some([reading |-> the(h.evaluated),
                                     produced |-> h.produced])]

\* _generate_realistic_reading on its own, as __init__ calls it.
GenerateRealisticReading(noise, step) ==
    /\ history.generations < MaxGenerations
    /\ current_readings' = Some(new_reading(now, noise, trends))
    /\ trends' = new_trends(trends, step)
    /\ history' = [Observe(<<"GenerateRealisticReading", 0>>) EXCEPT
                     !.generations = history.generations + 1,
                     !.drawn = Some([noise |-> noise, step |-> step,
                                     trends |-> trends])]
    /\ UNCHANGED <<now, monitoring_active, irrigation_status, alerts,
                   db_manager, db_rows, tasks, next_id>>

\* _sensor_reading_loop from the while test to its first suspension: the
\* generation, then either the suspension inside store_sensor_reading or,
\* when the call returns at once, _check_thresholds and the sleep.
ReadingLoopIteration(i, noise, step) ==
    /\ tasks[i].loop = "reading"
    /\ AtWhileTest(tasks[i])
    /\ EventLoopFree
    /\ monitoring_active
    /\ history.generations < MaxGenerations
    /\ LET reading == Some(new_reading(now, noise, trends))
       IN  /\ current_readings' = reading
           /\ trends' = new_trends(trends, step)
           /\ IF store_suspends(db_manager)
              THEN /\ tasks' = [tasks EXCEPT ![i].pc = "storing",
                                             ![i].reading = reading]
                   /\ history' = [Observe(<<"ReadingLoopIteration", i>>) EXCEPT
                                    !.generations = history.generations + 1]
                   /\ UNCHANGED <<alerts, next_id>>
              ELSE /\ alerts' = checked_alerts(alerts, reading,
                                               ThresholdSettings, now, next_id)
                   /\ next_id' = next_id + Len(new_alerts(reading, ThresholdSettings,
                                                           now, next_id))
                   /\ tasks' = [tasks EXCEPT ![i].pc = "sleeping",
                                             ![i].reading = reading]
                   /\ history' = [Evaluated(Observe(<<"ReadingLoopIteration", i>>), reading,
                                            alerts, now, next_id) EXCEPT
                                    !.generations = history.generations + 1]
    /\ UNCHANGED <<now, monitoring_active, irrigation_status, db_manager,
                   db_rows>>

\* The database write of store_sensor_reading ends: the row is committed
\* (ok), or the write raised and the error was logged.
StoreEnds(i, ok) ==
    /\ tasks[i].pc = "storing"
    /\ tasks' = [tasks EXCEPT ![i].pc = "stored", ![i].store_ok = ok]
    /\ db_rows' = IF ok THEN db_rows \cup {the(tasks[i].reading)} ELSE db_rows
    /\ history' = Observe(<<"StoreEnds", i>>)
    /\ UNCHANGED <<now, monitoring_active, current_readings, trends,
                   irrigation_status, alerts, db_manager, next_id>>

\* _sensor_reading_loop after store_sensor_reading: _check_thresholds on
\* self.current_readings, then the sleep.
ReadingLoopContinues(i) ==
    /\ tasks[i].pc = "stored"
    /\ EventLoopFree
    /\ IF store_returns(tasks[i].store_ok)
       THEN /\ alerts' = checked_alerts(alerts, current_readings,
                                        ThresholdSettings, now, next_id)
            /\ next_id' = next_id + Len(new_alerts(current_readings,
                                                    ThresholdSettings, now, next_id))
            /\ tasks' = [tasks EXCEPT ![i].pc = "sleeping"]
            /\ history' = Evaluated(Observe(<<"ReadingLoopContinues", i>>), current_readings,
                                    alerts, now, next_id)
       ELSE /\ tasks' = [tasks EXCEPT ![i] = on_exception(tasks[i])]
            /\ history' = Observe(<<"ReadingLoopContinues", i>>)
            /\ UNCHANGED <<alerts, next_id>>
    /\ UNCHANGED <<now, monitoring_active, current_readings, trends,
                   irrigation_status, db_manager, db_rows>>

\* A pass of the alert loop that also switches the irrigation off.
AlertLoopIteration_stopping_irrigation(i) ==
    /\ tasks[i].loop = "alert"
    /\ AtWhileTest(tasks[i])
    /\ EventLoopFree
    /\ monitoring_active
    /\ alerts' = swept_alerts(alerts, now)
    /\ irrigation_status' =
         execute_irrigation(irrigation_status,
                            IrrigationCommand(FALSE, None, None), now)
    /\ tasks' = [tasks EXCEPT ![i].pc = "sleeping"]
    /\ history' = [Observe(<<"AlertLoopIteration", i>>) EXCEPT !.before = alerts]
    /\ UNCHANGED <<now, monitoring_active, current_readings, trends,
                   db_manager, db_rows, next_id>>

\* One pass of _alert_monitoring_loop, from the while test to its sleep.
AlertLoopIteration(i) ==
    /\ tasks[i].loop = "alert"
    /\ AtWhileTest(tasks[i])
    /\ EventLoopFree
    /\ monitoring_active
    /\ alerts' = swept_alerts(alerts, now)
    /\ tasks' = [tasks EXCEPT ![i].pc = "sleeping"]
    /\ history' = [Observe(<<"AlertLoopIteration", i>>) EXCEPT !.before = alerts]
    /\ UNCHANGED <<now, monitoring_active, current_readings, trends,
                   irrigation_status, db_manager, db_rows, next_id>>

\* One pass of _irrigation_management_loop, from the while test to its sleep.
IrrigationLoopIteration(i) ==
    /\ tasks[i].loop = "irrigation"
    /\ AtWhileTest(tasks[i])
    /\ EventLoopFree
    /\ monitoring_active
    /\ IF tick_raises(irrigation_status)
       THEN /\ tasks' = [tasks EXCEPT ![i] = on_exception(tasks[i])]
            /\ UNCHANGED irrigation_status
       ELSE /\ irrigation_status' = irrigation_tick(irrigation_status, now)
            /\ tasks' = [tasks EXCEPT ![i].pc = "sleeping"]
    /\ history' = [Observe(<<"IrrigationLoopIteration", i>>) EXCEPT
                     !.ticks = Min2(history.ticks + 1, MaxDuration + 1),
                     !.ticked = Some(irrigation_status)]
    /\ UNCHANGED <<now, monitoring_active, current_readings, trends, alerts,
                   db_manager, db_rows, next_id>>

\* _check_thresholds on its own, self.thresholds holding the given settings:
\* the evaluation of the reading just generated.
CheckThresholds(thresholds) ==
    /\ history.last[1] = "GenerateRealisticReading"
    /\ alerts' = checked_alerts(alerts, current_readings, thresholds, now,
                                next_id)
    /\ next_id' = next_id + Len(new_alerts(current_readings, thresholds, now,
                                           next_id))
    /\ history' = [Observe(<<"CheckThresholds", 0>>) EXCEPT
                     !.evaluated = current_readings,
                     !.produced = new_alerts(current_readings, thresholds,
                                             now, next_id),
                     !.before = alerts]
    /\ UNCHANGED <<now, monitoring_active, current_readings, trends,
                   irrigation_status, db_manager, db_rows, tasks>>

\* An exception raised inside the try block of a loop, before the body has
\* assigned anything (at the while test) or inside _check_thresholds (after
\* the database write): the except clause of the loop handles it.
LoopBodyRaises(i) ==
    /\ \/ AtWhileTest(tasks[i]) /\ monitoring_active
       \/ tasks[i].pc = "stored"
    /\ EventLoopFree
    /\ history.failures < MaxFailures
    /\ tasks' = [tasks EXCEPT ![i] = on_exception(tasks[i])]
    /\ history' = [Observe(<<"LoopBodyRaises", i>>) EXCEPT
                     !.failures = history.failures + 1]
    /\ UNCHANGED <<now, monitoring_active, current_readings, trends,
                   irrigation_status, alerts, db_manager, db_rows, next_id>>

\* execute_irrigation(command), called by the API while the loops wait.
ExecuteIrrigation(command) ==
    /\ history.commands < MaxCommands
    /\ EventLoopFree
    /\ irrigation_status' = execute_irrigation(irrigation_status, command, now)
    /\ history' = [Observe(<<"ExecuteIrrigation", 0>>) EXCEPT
                     !.cmd = Some(command),
                     !.prior = irrigation_status,
                     !.ticks = 0,
                     !.commands = history.commands + 1]
    /\ UNCHANGED <<now, monitoring_active, current_readings, trends, alerts,
                   db_manager, db_rows, tasks, next_id>>

-----------------------------------------------------------------------------
(* Readers: the get_ methods the API calls between two steps of the loops. *)
(* The history keeps the last call: the method, and the value as it was    *)
(* when the call returned.                                                 *)

Returned(method, value) == Some([method |-> method, value |-> value])

\* get_current_readings generating a reading on every call.
get_current_readings_always_generating(current, generated) == generated

\* get_current_readings: the reading it returns, `generated` being what
\* _generate_realistic_reading would assign.
get_current_readings(current, generated) ==
    IF current = None THEN generated ELSE current

\* What a caller of get_irrigation_status holds later on: the method
\* returns self.irrigation_status itself, the object that execute_irrigation
\* and the irrigation loop assign to field by field, so the caller sees
\* the status as it is now, whatever it was when the call returned.
held_status(returned, status) == status

\* What a caller of get_current_readings holds later on: each generation
\* binds self.current_readings to a new SensorReading and no code assigns
\* to the fields of one, so the caller keeps what was returned.
held_reading(returned, current) == returned

\* What a caller of get_active_alerts holds later on: the list built by
\* the comprehension, of AlertData objects no code assigns to.
held_alerts(returned, ledger) == returned

GetIrrigationStatus ==
    /\ EventLoopFree
    /\ history' = [Observe(<<"GetIrrigationStatus", 0>>) EXCEPT
                     !.returned = Returned("get_irrigation_status",
                                           irrigation_status)]
    /\ UNCHANGED <<now, monitoring_active, current_readings, trends,
                   irrigation_status, alerts, db_manager, db_rows, tasks,
                   next_id>>

GetCurrentReadings(noise, step) ==
    /\ EventLoopFree
    /\ current_readings = None => history.generations < MaxGenerations
    /\ current_readings' =
         get_current_readings(current_readings,
                              Some(new_reading(now, noise, trends)))
    /\ trends' = IF current_readings = None THEN new_trends(trends, step)
                 ELSE trends
    /\ history' = [Observe(<<"GetCurrentReadings", 0>>) EXCEPT
                     !.returned = Returned("get_current_readings",
                                           current_readings'),
                     !.generations =
                        IF current_readings = None THEN @ + 1 ELSE @]
    /\ UNCHANGED <<now, monitoring_active, irrigation_status, alerts,
                   db_manager, db_rows, tasks, next_id>>

GetActiveAlerts ==
    /\ EventLoopFree
    /\ history' = [Observe(<<"GetActiveAlerts", 0>>) EXCEPT
                     !.returned = Returned("get_active_alerts",
                                           get_active_alerts(alerts))]
    /\ UNCHANGED <<now, monitoring_active, current_readings, trends,
                   irrigation_status, alerts, db_manager, db_rows, tasks,
                   next_id>>

\* column_map of get_historical_readings: the columns a sensor_type may name.
column_map == Channels

\* The keys of a reading of _generate_mock_historical_reading.
MockChannels ==
    {"soil_moisture", "soil_temperature", "air_temperature", "humidity",
     "soil_ph", "atmospheric_pressure"}

\* `if sensor_type`: Python truth of an Optional[str], None and "" are false.
given(name) == name # None /\ the(name) # ""

\* DatabaseManager.get_historical_readings: rows is the table, connects
\* whether aiosqlite.connect and the query succeed.  The data points are
\* the rows of the last `hours` hours, kept here as a set.
get_historical_readings(db, rows, t, hours, sensor_type, connects) ==
    IF ~db.db_initialized
    THEN [error |-> <<"Database not initialized">>]
    ELSE IF ~connects
    THEN [error |-> <<"str(e)">>]
    ELSE IF given(sensor_type) /\ the(sensor_type) \notin column_map
    THEN [error |-> <<"Unknown sensor type: ", the(sensor_type)>>]
    ELSE LET recent == {row \in rows : row.timestamp >= t - hours}
             data_points ==
               IF given(sensor_type)
               THEN {[timestamp |-> row.timestamp,
                      value |-> row.value[the(sensor_type)]] : row \in recent}
               ELSE recent
         IN  [start_time |-> t - hours,
              end_time |-> t,
              sensor_type |-> sensor_type,
              data_points |-> data_points,
              total_points |-> Cardinality(data_points)]

\* SensorManager.get_historical_data: delegated to the database when there
\* is one; otherwise one mock point per hour from start_time to end_time,
\* with every key of MockChannels, whatever sensor_type is.
get_historical_data(db, rows, t, hours, sensor_type, connects, mock) ==
    IF db # None
    THEN get_historical_readings(the(db), rows, t, hours, sensor_type,
                                 connects)
    ELSE LET data_points ==
               {[timestamp |-> t - hours + k, value |-> mock] : k \in 0..hours}
         IN  [start_time |-> t - hours,
              end_time |-> t,
              data_points |-> data_points,
              total_points |-> Cardinality(data_points)]

GetHistoricalData(hours, sensor_type, connects, mock) ==
    /\ EventLoopFree
    /\ history' = [Observe(<<"GetHistoricalData", 0>>) EXCEPT
                     !.returned =
                        Returned(<<"get_historical_data", hours, sensor_type>>,
                                 get_historical_data(db_manager, db_rows, now,
                                                     hours, sensor_type,
                                                     connects, mock))]
    /\ UNCHANGED <<now, monitoring_active, current_readings, trends,
                   irrigation_status, alerts, db_manager, db_rows, tasks,
                   next_id>>

-----------------------------------------------------------------------------
(* Inputs: the draws of random.gauss and the commands of the API.          *)

ZeroDraw == [c \in Channels |-> 0]
Uniform(n) == [c \in Channels |-> n]
OneHot(c, n) == [d \in Channels |-> IF d = c THEN n ELSE 0]

Thresholded == {checks[k] : k \in 1..Len(checks)}

\* The readings at and next to the bounds of a channel's threshold and of
\* its escalation: min * 0.8, min, max, max * 1.2.
BoundaryValues(c) ==
    LET th == ThresholdSettings[c]
        q == round_quantum[c]
        low == {(th.min * 8) \div 10, th.min}
        high == {th.max, (th.max * 12) \div 10}
    IN  low \cup {v - q : v \in low} \cup high \cup {v + q : v \in high}

\* The noise that brings channel c to those readings at midnight with no
\* drift, the other channels drawing 0.
BoundaryDraws ==
    UNION {{OneHot(c, v - base_values[c]) : v \in BoundaryValues(c)} :
             c \in Thresholded}

\* Draws far outside every clamp range, on all channels at once.
ExtremeDraws == {Uniform(Units(-5000)), Uniform(Units(5000))}

\* Each channel alone far outside its clamp range.
ClampDraws ==
    {OneHot(c, n) : c \in Channels, n \in {Units(-5000), Units(5000)}}

\* Steps of the drift: the usual size of gauss(0, 0.01) and steps that reach
\* the bounds of the drift.
StepDraws == {Uniform(n) : n \in {Units(-3), 100, Units(3)}}

\* The draws of the persistence specification: none, soil moisture low, and
\* every channel above its range.
FewNoiseDraws ==
    {ZeroDraw, OneHot("soil_moisture", Units(-25)), Uniform(Units(5000))}

\* The draws of the alert ledger specification: none, and soil moisture low.
AlertNoiseDraws == {ZeroDraw, OneHot("soil_moisture", Units(-25))}

\* The draw of the scheduler specification: soil moisture low, so that
\* every evaluation raises an alert.
SchedulerNoiseDraws == {OneHot("soil_moisture", Units(-25))}

GeneratorNoiseDraws == ClampDraws \cup ExtremeDraws \cup {ZeroDraw}

\* The hours of the day at which the engine is constructed.
StartHours == {0, 6, 12, 15}

Zones == {None, Some(""), Some("zone_a")}
Durations == {None} \cup {Some(d) : d \in 1..MaxDuration}

\* The commands IrrigationCommand accepts, up to MaxDuration.
Commands ==
    {IrrigationCommand(TRUE, d, z) : d \in Durations, z \in Zones}
    \cup {IrrigationCommand(FALSE, None, None)}

DatabaseManagers ==
    {None, Some([db_initialized |-> FALSE]), Some([db_initialized |-> TRUE])}

-----------------------------------------------------------------------------
(* Specifications.                                                         *)

InitialHistory ==
    [last |-> <<"init", 0>>, cmd |-> None, prior |-> InitialIrrigationStatus,
     ticks |-> 0, commands |-> 0, generations |-> 0, failures |-> 0,
     evaluated |-> None, produced |-> << >>, before |-> << >>,
     stop_called |-> FALSE, returned |-> None, earlier |-> None,
     drawn |-> None, ticked |-> None]

\* __init__ without its last line: no reading until the first is asked for
\* or the reading loop runs.
Constructed_without_first_reading(hours, noiseDraws, stepDraws, dbs) ==
    /\ now \in hours
    /\ monitoring_active = FALSE
    /\ current_readings = None
    /\ trends = ZeroDraw
    /\ irrigation_status = InitialIrrigationStatus
    /\ alerts = << >>
    /\ db_manager \in dbs
    /\ db_rows = {}
    /\ tasks = << >>
    /\ next_id = 1
    /\ history = InitialHistory

\* SensorManager(db_manager): __init__ ends with one generation.
Constructed(hours, noiseDraws, stepDraws, dbs) ==
    /\ now \in hours
    /\ monitoring_active = FALSE
    /\ \E noise \in noiseDraws :
         current_readings = Some(new_reading(now, noise, ZeroDraw))
    /\ \E step \in stepDraws : trends = new_trends(ZeroDraw, step)
    /\ irrigation_status = InitialIrrigationStatus
    /\ alerts = << >>
    /\ db_manager \in dbs
    /\ db_rows = {}
    /\ tasks = << >>
    /\ next_id = 1
    /\ history = InitialHistory

TaskIds == 1..Len(tasks)

\* Steps of the clock: half a day, and a quarter of a day more than six days.
ClockSteps == {12, 150}

\* The scheduler: the engine as lifespan runs it, constructed with a
\* DatabaseManager or without one, started once and stopped once, with
\* failing database writes and exceptions in the loop bodies, all within one
\* hour.
Init == Constructed({0}, {ZeroDraw}, {ZeroDraw}, DatabaseManagers)

Next ==
    \/ StartMonitoring
    \/ StopMonitoring
    \/ \E i \in TaskIds : SleepElapses(i)
    \/ \E i \in TaskIds : LoopExits(i)
    \/ \E i \in TaskIds, noise \in SchedulerNoiseDraws :
         ReadingLoopIteration(i, noise, Uniform(100))
    \/ \E i \in TaskIds, ok \in BOOLEAN : StoreEnds(i, ok)
    \/ \E i \in TaskIds : ReadingLoopContinues(i)
    \/ \E i \in TaskIds : AlertLoopIteration(i)
    \/ \E i \in TaskIds : IrrigationLoopIteration(i)
    \/ \E i \in TaskIds : LoopBodyRaises(i)

Spec == Init /\ [][Next]_vars

\* The generator alone: every draw of GeneratorNoiseDraws at every hour of
\* StartHours.
InitGenerator ==
    Constructed(StartHours, GeneratorNoiseDraws, StepDraws, {None})

NextGenerator ==
    \/ \E noise \in GeneratorNoiseDraws, step \in StepDraws :
         GenerateRealisticReading(noise, step)

SpecGenerator == InitGenerator /\ [][NextGenerator]_vars

\* The irrigation controller: commands of the API and the irrigation loop,
\* over several days; of the three loops only the irrigation loop is
\* scheduled.
InitIrrigation == Constructed({0}, {ZeroDraw}, {ZeroDraw}, {None})

NextIrrigation ==
    \/ AdvanceClock(144)
    \/ StartMonitoring
    \/ StopMonitoring
    \/ \E i \in TaskIds : tasks[i].loop = "irrigation" /\ SleepElapses(i)
    \/ \E i \in TaskIds : tasks[i].loop = "irrigation" /\ LoopExits(i)
    \/ \E i \in TaskIds : IrrigationLoopIteration(i)
    \/ \E command \in Commands : ExecuteIrrigation(command)

SpecIrrigation == InitIrrigation /\ [][NextIrrigation]_vars

\* The alert ledger: the reading loop and the alert loop over more than a
\* week, without a database.
InitAlerts == Constructed({0}, {ZeroDraw}, {ZeroDraw}, {None})

NextAlerts ==
    \/ \E d \in ClockSteps : AdvanceClock(d)
    \/ StartMonitoring
    \/ \E i \in TaskIds : SleepElapses(i)
    \/ \E i \in TaskIds, noise \in AlertNoiseDraws :
         ReadingLoopIteration(i, noise, ZeroDraw)
    \/ \E i \in TaskIds : AlertLoopIteration(i)

SpecAlerts == InitAlerts /\ [][NextAlerts]_vars

\* The threshold evaluator: one reading loop without a database, every draw
\* of BoundaryDraws and of ExtremeDraws.
InitEvaluator == Constructed({0}, {ZeroDraw}, {ZeroDraw}, {None})

NextEvaluator ==
    \/ StartMonitoring
    \/ \E i \in TaskIds : SleepElapses(i)
    \/ \E i \in TaskIds, noise \in BoundaryDraws \cup ExtremeDraws :
         ReadingLoopIteration(i, noise, ZeroDraw)

SpecEvaluator == InitEvaluator /\ [][NextEvaluator]_vars

\* Persistence: the engine with its initialized database, running; writes
\* of readings with and without breaches that succeed or fail, and the
\* sweeps of the alert loop between them.
InitPersistence ==
    Constructed({0}, {ZeroDraw}, {ZeroDraw}, {Some([db_initialized |-> TRUE])})

NextPersistence ==
    \/ StartMonitoring
    \/ \E i \in TaskIds : SleepElapses(i)
    \/ \E i \in TaskIds, noise \in FewNoiseDraws :
         ReadingLoopIteration(i, noise, Uniform(100))
    \/ \E i \in TaskIds, ok \in BOOLEAN : StoreEnds(i, ok)
    \/ \E i \in TaskIds : ReadingLoopContinues(i)
    \/ \E i \in TaskIds : AlertLoopIteration(i)

SpecPersistence == InitPersistence /\ [][NextPersistence]_vars

\* The suspended write: the engine with its initialized database, running,
\* with activate commands of the API; the three loops interleave at their
\* awaits, the reading loop also inside store_sensor_reading.
InitSuspendedWrite ==
    Constructed({0}, {ZeroDraw}, {ZeroDraw}, {Some([db_initialized |-> TRUE])})

NextSuspendedWrite ==
    \/ StartMonitoring
    \/ \E i \in TaskIds : SleepElapses(i)
    \/ \E i \in TaskIds, noise \in SchedulerNoiseDraws :
         ReadingLoopIteration(i, noise, Uniform(100))
    \/ \E i \in TaskIds, ok \in BOOLEAN : StoreEnds(i, ok)
    \/ \E i \in TaskIds : ReadingLoopContinues(i)
    \/ \E i \in TaskIds : AlertLoopIteration(i)
    \/ \E i \in TaskIds : IrrigationLoopIteration(i)
    \/ \E d \in 1..MaxDuration :
         ExecuteIrrigation(IrrigationCommand(TRUE, Some(d), None))

SpecSuspendedWrite == InitSuspendedWrite /\ [][NextSuspendedWrite]_vars

\* The irrigation controller while monitoring stays active: commands of the
\* API and the irrigation loop, whose sleep always elapses and whose body
\* always runs once it is scheduled.
NextIrrigationTicking ==
    \/ StartMonitoring
    \/ \E i \in TaskIds : tasks[i].loop = "irrigation" /\ SleepElapses(i)
    \/ \E i \in TaskIds : IrrigationLoopIteration(i)
    \/ \E command \in Commands : ExecuteIrrigation(command)

SpecIrrigationTicking ==
    /\ InitIrrigation
    /\ [][NextIrrigationTicking]_vars
    /\ WF_vars(\E i \in TaskIds :
                 tasks[i].loop = "irrigation" /\ SleepElapses(i))
    /\ WF_vars(\E i \in TaskIds : IrrigationLoopIteration(i))

\* Restarts: start_monitoring and stop_monitoring called in any order, up
\* to MaxStarts starts, with the loops and commands of the API in between.
InitRestarts == Constructed({0}, {ZeroDraw}, {ZeroDraw}, {None})

NextRestarts ==
    \/ CallStartMonitoring
    \/ CallStopMonitoring
    \/ \E i \in TaskIds : SleepElapses(i)
    \/ \E i \in TaskIds : LoopExits(i)
    \/ \E i \in TaskIds : IrrigationLoopIteration(i)
    \/ \E d \in 1..MaxDuration :
         ExecuteIrrigation(IrrigationCommand(TRUE, Some(d), None))

SpecRestarts == InitRestarts /\ [][NextRestarts]_vars

\* The clock moves on by d hours while the reading loop keeps its cadence:
\* once the loops are started, the time since the reading loop's last
\* generation (asyncio.sleep(30) and the body) stays below the 7 days of the
\* sweep.
TimePasses(d) ==
    /\ tasks # << >> =>
         now + d - the(current_readings).timestamp < 7 * 24
    /\ AdvanceClock(d)

\* Cadence: the reading loop and the alert loop without a database, the
\* clock moving on between their steps no further than the reading loop's
\* cadence allows.
InitCadence == Constructed({0}, {ZeroDraw}, {ZeroDraw}, {None})

NextCadence ==
    \/ \E d \in ClockSteps : TimePasses(d)
    \/ StartMonitoring
    \/ \E i \in TaskIds : SleepElapses(i)
    \/ \E i \in TaskIds, noise \in AlertNoiseDraws :
         ReadingLoopIteration(i, noise, ZeroDraw)
    \/ \E i \in TaskIds : AlertLoopIteration(i)

SpecCadence == InitCadence /\ [][NextCadence]_vars

\* One iteration of the reading loop at a time: the engine with any of the
\* three databases, running, the write succeeding or failing, and between
\* any two steps of the reading loop the other loops, a command of the API
\* and get_current_readings.
InitIterations == Constructed({0}, {ZeroDraw}, {ZeroDraw}, DatabaseManagers)

NextIterations ==
    \/ StartMonitoring
    \/ \E i \in TaskIds : SleepElapses(i)
    \/ \E i \in TaskIds, noise \in SchedulerNoiseDraws :
         ReadingLoopIteration(i, noise, Uniform(100))
    \/ \E i \in TaskIds, ok \in BOOLEAN : StoreEnds(i, ok)
    \/ \E i \in TaskIds : ReadingLoopContinues(i)
    \/ \E i \in TaskIds : AlertLoopIteration(i)
    \/ \E i \in TaskIds : IrrigationLoopIteration(i)
    \/ ExecuteIrrigation(IrrigationCommand(TRUE, Some(1), None))
    \/ GetCurrentReadings(ZeroDraw, Uniform(100))

SpecIterations == InitIterations /\ [][NextIterations]_vars

\* Threshold settings a ThresholdSettings can hold for air_temperature: the
\* default, a negative min, a zero min, and both bounds negative.
AirTemperatureThresholds ==
    {[min |-> Units(10), max |-> Units(40)],
     [min |-> Units(-5), max |-> Units(40)],
     [min |-> 0, max |-> Units(40)],
     [min |-> Units(-8), max |-> Units(-5)]}

ThresholdConfigurations ==
    {[ThresholdSettings EXCEPT !["air_temperature"] = th] :
       th \in AirTemperatureThresholds}

\* Air temperatures next to those bounds and next to 20% beyond them.
AirTemperatureValues ==
    {-97000, -96000, -95000, -81000, -61000, -60000, -59000, -51000, -49000,
     -41000, -40000, -39000, -1000, 79000, 80000, 481000}

\* The noise that brings the air temperature to those values at midnight
\* with no drift, the other channels drawing 0.
AirTemperatureDraws ==
    {OneHot("air_temperature",
            v - channel_value("air_temperature", 0, 0, 0)) :
       v \in AirTemperatureValues}

\* Severity: generations with the draws of AirTemperatureDraws, each
\* evaluated under one of ThresholdConfigurations.
InitSeverity == Constructed({0}, {ZeroDraw}, {ZeroDraw}, {None})

NextSeverity ==
    \/ \E noise \in AirTemperatureDraws :
         GenerateRealisticReading(noise, ZeroDraw)
    \/ \E thresholds \in ThresholdConfigurations : CheckThresholds(thresholds)

SpecSeverity == InitSeverity /\ [][NextSeverity]_vars

\* Shutdown: the lifespan of the engine without a database, start once and
\* stop once, with the irrigation commands the API passes on while the
\* engine is monitoring.
InitShutdown == Constructed({0}, {ZeroDraw}, {ZeroDraw}, {None})

NextShutdown ==
    \/ StartMonitoring
    \/ StopMonitoring
    \/ \E i \in TaskIds : SleepElapses(i)
    \/ \E i \in TaskIds : LoopExits(i)
    \/ \E i \in TaskIds, noise \in SchedulerNoiseDraws :
         ReadingLoopIteration(i, noise, Uniform(100))
    \/ \E i \in TaskIds : AlertLoopIteration(i)
    \/ \E i \in TaskIds : IrrigationLoopIteration(i)
    \/ \E command \in Commands :
         /\ monitoring_active
         /\ command.zone_id = None
         /\ ExecuteIrrigation(command)

SpecShutdown == InitShutdown /\ [][NextShutdown]_vars

\* The sensor types asked for: none, the empty name, a column of the table
\* and a name that is no column.
SensorTypes == {None, Some(""), Some("soil_moisture"), Some("soil_salinity")}

\* The hours asked for.
HoursAsked == {0, 1}

\* One reading of _generate_mock_historical_reading.
MockReading == [c \in MockChannels |-> base_values[c]]

\* Historical queries: the engine constructed without a database, with one
\* that is not initialized and with one that is, running, with writes that
\* succeed or fail and queries between any two steps.
InitHistorical == Constructed({0}, {ZeroDraw}, {ZeroDraw}, DatabaseManagers)

NextHistorical ==
    \/ StartMonitoring
    \/ \E i \in TaskIds : tasks[i].loop = "reading" /\ SleepElapses(i)
    \/ \E i \in TaskIds, noise \in SchedulerNoiseDraws :
         ReadingLoopIteration(i, noise, Uniform(100))
    \/ \E i \in TaskIds, ok \in BOOLEAN : StoreEnds(i, ok)
    \/ \E i \in TaskIds : ReadingLoopContinues(i)
    \/ \E hours \in HoursAsked, sensor_type \in SensorTypes,
          connects \in BOOLEAN :
         GetHistoricalData(hours, sensor_type, connects, MockReading)

SpecHistorical == InitHistorical /\ [][NextHistorical]_vars

\* The commands of the readers specification: activate with a duration, and
\* deactivate.
ReaderCommands ==
    {IrrigationCommand(TRUE, Some(d), None) : d \in 1..MaxDuration}
    \cup {IrrigationCommand(FALSE, None, None)}

\* Readers: the engine without a database, running, with commands of the
\* API and calls of the three get_ methods between any two steps of the
\* loops.
InitReaders == Constructed({0}, {ZeroDraw}, {ZeroDraw}, {None})

NextReaders ==
    \/ StartMonitoring
    \/ \E i \in TaskIds : SleepElapses(i)
    \/ \E i \in TaskIds, noise \in SchedulerNoiseDraws :
         ReadingLoopIteration(i, noise, Uniform(100))
    \/ \E i \in TaskIds : AlertLoopIteration(i)
    \/ \E i \in TaskIds : IrrigationLoopIteration(i)
    \/ \E command \in ReaderCommands : ExecuteIrrigation(command)
    \/ GetIrrigationStatus
    \/ \E noise \in SchedulerNoiseDraws : GetCurrentReadings(noise, Uniform(100))
    \/ GetActiveAlerts

SpecReaders == InitReaders /\ [][NextReaders]_vars

\* Lifecycle: the engine without a database before it is started, while it
\* runs, after it is stopped and after exceptions in the loop bodies, with
\* calls of the three get_ methods between any two steps.
InitLifecycle == Constructed({0}, {ZeroDraw}, {ZeroDraw}, {None})

NextLifecycle ==
    \/ StartMonitoring
    \/ StopMonitoring
    \/ \E i \in TaskIds : SleepElapses(i)
    \/ \E i \in TaskIds : LoopExits(i)
    \/ \E i \in TaskIds, noise \in SchedulerNoiseDraws :
         ReadingLoopIteration(i, noise, Uniform(100))
    \/ \E i \in TaskIds : AlertLoopIteration(i)
    \/ \E i \in TaskIds : IrrigationLoopIteration(i)
    \/ \E i \in TaskIds : LoopBodyRaises(i)
    \/ GetIrrigationStatus
    \/ \E noise \in SchedulerNoiseDraws : GetCurrentReadings(noise, Uniform(100))
    \/ GetActiveAlerts

SpecLifecycle == InitLifecycle /\ [][NextLifecycle]_vars

-----------------------------------------------------------------------------
(* Properties.                                                             *)

LastAction == history.last[1]
LastTask == history.last[2]

\* The last command of the API was activate with a duration.
ActivatedFor(d) ==
    /\ history.cmd # None
    /\ the(history.cmd).activate
    /\ the(history.cmd).duration_minutes = Some(d)

\* C1: after activate with duration d >= 1 and k ticks of the irrigation
\* loop with no command in between, the status is active with
\* remaining_minutes = d - k while k < d, and inactive with remaining_minutes
\* cleared once k = d.
C1_CountdownThenAutoStop ==
    \A d \in 1..MaxDuration :
      ActivatedFor(d) =>
        /\ history.ticks < d =>
             /\ irrigation_status.is_active
             /\ irrigation_status.remaining_minutes = Some(d - history.ticks)
        /\ history.ticks = d =>
             /\ ~irrigation_status.is_active
             /\ irrigation_status.remaining_minutes = None

\* A run of two minutes or more that the second tick has just stopped.
C1_Witness ==
    /\ \E d \in 2..MaxDuration : ActivatedFor(d) /\ history.ticks = d
    /\ LastAction = "IrrigationLoopIteration"
    /\ ~irrigation_status.is_active
    /\ irrigation_status.last_activation # None

\* C2: an activate command issued while irrigation is active overwrites the
\* running command: right after it the status is active and
\* remaining_minutes and duration_minutes are the new command's duration.
C2_ReactivationOverwrites ==
    ( /\ LastAction = "ExecuteIrrigation"
      /\ the(history.cmd).activate
      /\ history.prior.is_active )
    => /\ irrigation_status.is_active
       /\ irrigation_status.remaining_minutes = the(history.cmd).duration_minutes
       /\ irrigation_status.duration_minutes = the(history.cmd).duration_minutes

\* A run that had consumed ticks, overwritten by a command whose duration
\* is not what the run had left.
C2_Witness ==
    /\ LastAction = "ExecuteIrrigation"
    /\ the(history.cmd).activate
    /\ the(history.cmd).duration_minutes # None
    /\ history.prior.is_active
    /\ history.prior.remaining_minutes # None
    /\ history.prior.duration_minutes # None
    /\ the(history.prior.remaining_minutes) < the(history.prior.duration_minutes)
    /\ the(history.cmd).duration_minutes # history.prior.remaining_minutes

\* C3: every channel value of the current reading lies inside the channel's
\* clamp range, after any number of generations, for every drift, hour and
\* noise draw.
C3_ReadingWithinClampRanges ==
    current_readings # None =>
      \A c \in Channels :
        /\ clamp_range[c].min <= the(current_readings).value[c]
        /\ the(current_readings).value[c] <= clamp_range[c].max

\* A generated reading with a channel held at the top of its range by the
\* clamp and another one inside its range, under a drift that has moved.
C3_Witness ==
    /\ history.generations >= 1
    /\ the(current_readings).value["humidity"] = clamp_range["humidity"].max
    /\ the(current_readings).value["soil_ph"] < clamp_range["soil_ph"].max
    /\ trends["humidity"] # 0

\* The alerts of the ledger raised for channel c in direction dir by the
\* last call of _check_thresholds.
Produced(c, dir) ==
    {k \in 1..Len(history.produced) :
       /\ history.produced[k].sensor_type = c
       /\ history.produced[k].type = <<c, dir>>}

\* C4: for a positive threshold, a value below min equal to min * 0.8 is
\* MODERATE and a value below min * 0.8 is HIGH; a value above max equal to
\* max * 1.2 is MODERATE and a value above max * 1.2 is HIGH.
C4_SeverityBoundary ==
    \A k \in 1..Len(alerts) :
      LET a == alerts[k]
      IN  /\ (a.type[2] = "low" /\ a.threshold_min > 0) =>
               /\ 10 * a.sensor_value = 8 * a.threshold_min
                    => a.severity = "moderate"
               /\ 10 * a.sensor_value < 8 * a.threshold_min
                    => a.severity = "high"
          /\ (a.type[2] = "high" /\ a.threshold_max > 0) =>
               /\ 10 * a.sensor_value = 12 * a.threshold_max
                    => a.severity = "moderate"
               /\ 10 * a.sensor_value > 12 * a.threshold_max
                    => a.severity = "high"

\* C5: one call of _check_thresholds raises, for each channel with a
\* threshold, exactly one low alert when value < min, exactly one high alert
\* when value > max and none when min <= value <= max; never a low and a
\* high alert for one channel; never an alert for a channel without a
\* threshold.  The alerts raised are the end of the ledger.
C5_OneAlertPerBreach ==
    (history.evaluated # None /\ LastAction = "ReadingLoopIteration") =>
      LET value == the(history.evaluated).value
          n == Len(history.produced)
      IN  /\ \A c \in Thresholded :
               LET th == ThresholdSettings[c]
                   lows == Cardinality(Produced(c, "low"))
                   highs == Cardinality(Produced(c, "high"))
               IN  /\ value[c] < th.min => lows = 1 /\ highs = 0
                   /\ value[c] > th.max => lows = 0 /\ highs = 1
                   /\ (th.min <= value[c] /\ value[c] <= th.max)
                        => lows = 0 /\ highs = 0
          /\ \A k \in 1..n :
               /\ history.produced[k].sensor_type \in Thresholded
               /\ history.produced[k].type[2] \in {"low", "high"}
               /\ history.produced[k].sensor_value
                    = value[history.produced[k].sensor_type]
          /\ n <= Len(alerts)
          /\ SubSeq(alerts, Len(alerts) - n + 1, Len(alerts)) = history.produced

\* An evaluation of a reading whose nitrogen is exactly at its minimum and
\* whose other channels are in range: no alert.
C5_Witness ==
    /\ history.evaluated # None
    /\ LastAction = "ReadingLoopIteration"
    /\ the(history.evaluated).value["nitrogen"] = ThresholdSettings["nitrogen"].min
    /\ history.produced = << >>

\* The alerts of a ledger, as a set.
AlertsOf(ledger) == {ledger[k] : k \in 1..Len(ledger)}

\* Hours since the alert was created.
Age(alert) == now - alert.timestamp

IterationStarts ==
    {"ReadingLoopIteration", "AlertLoopIteration", "IrrigationLoopIteration"}

\* The next iteration of the loop of task i, as the model bounds it.
NextIteration(i) ==
    \/ \E noise \in SchedulerNoiseDraws :
         ReadingLoopIteration(i, noise, Uniform(100))
    \/ AlertLoopIteration(i)
    \/ IrrigationLoopIteration(i)

\* C7: once stop_monitoring has been called, no sleep of a loop elapses with
\* the loop still in it (the loop has exited before), and no loop starts
\* another iteration of its body.
C7_StopEndsLoopsWithinSleep ==
    history.stop_called =>
      /\ LastAction # "SleepElapses"
      /\ LastAction \notin IterationStarts

\* C8: while monitoring is active no loop has terminated, whatever was
\* raised in a loop body; the step in which a body raises leaves its loop in
\* the backoff sleep; and a loop that has raised and whose sleep has elapsed
\* can run its next iteration.
C8_ExceptionNeverEndsALoop ==
    /\ monitoring_active => \A i \in TaskIds : tasks[i].pc # "done"
    /\ LastAction = "LoopBodyRaises" =>
         /\ tasks[LastTask].pc = "backoff"
         /\ tasks[LastTask].raised
    /\ \A i \in TaskIds :
         ( /\ tasks[i].raised
           /\ tasks[i].pc = "woken"
           /\ monitoring_active
           /\ tasks[i].loop = "reading" => history.generations < MaxGenerations )
         => ENABLED NextIteration(i)

\* A loop whose body raised has slept its backoff and run its next
\* iteration, and another loop has just run an iteration too.
C8_Witness ==
    /\ monitoring_active
    /\ LastAction \in IterationStarts
    /\ \E i \in TaskIds :
         /\ i # LastTask
         /\ tasks[i].raised
         /\ tasks[i].pc = "sleeping"

\* The channels of a reading that are outside their threshold.
Breaches(reading) ==
    {c \in Thresholded :
       breach(reading.value[c], ThresholdSettings[c]) # "none"}

\* C9: from the generation to the end of the iteration the reading of the
\* iteration is current_readings, also while the write is pending and after
\* it has failed; and the iteration whose write failed ends with the
\* evaluation of that reading: every breach of it has its alert of this
\* moment in the ledger, and the loop is in its regular sleep.
C9_FailedWriteKeepsReadingAndAlerts ==
    /\ \A i \in TaskIds :
         tasks[i].pc \in {"storing", "stored"}
           => current_readings = tasks[i].reading
    /\ ( /\ LastAction = "ReadingLoopContinues"
         /\ ~tasks[LastTask].store_ok )
       => /\ tasks[LastTask].pc = "sleeping"
          /\ current_readings = tasks[LastTask].reading
          /\ history.evaluated = tasks[LastTask].reading
          /\ \A c \in Breaches(the(current_readings)) :
               \E alert \in AlertsOf(alerts) :
                 /\ alert.sensor_type = c
                 /\ alert.sensor_value = the(current_readings).value[c]
                 /\ alert.timestamp = now
                 /\ alert.id >= history.produced[1].id

\* An iteration whose write failed and whose reading has a breach.
C9_Witness ==
    /\ LastAction = "ReadingLoopContinues"
    /\ ~tasks[LastTask].store_ok
    /\ Breaches(the(current_readings)) # {}
    /\ the(current_readings) \notin db_rows
    /\ history.produced # << >>

\* The reading loop is suspended inside the database write.
SuspendedInWrite ==
    \E i \in TaskIds : tasks[i].loop = "reading" /\ tasks[i].pc = "storing"

NoPartialStatus ==
    /\ irrigation_status.is_active =>
         ~( /\ irrigation_status.remaining_minutes # None
            /\ the(irrigation_status.remaining_minutes) <= 0 )
    /\ ~irrigation_status.is_active =>
         /\ irrigation_status.start_time = None
         /\ irrigation_status.duration_minutes = None
         /\ irrigation_status.remaining_minutes = None

\* What the caller of the last get_ method holds in this state.
HeldNow ==
    LET r == the(history.returned)
    IN  CASE r.method = "get_irrigation_status" ->
               held_status(r.value, irrigation_status)
          [] r.method = "get_current_readings" ->
               held_reading(r.value, current_readings)
          [] r.method = "get_active_alerts" ->
               held_alerts(r.value, alerts)

\* C11: in every state the status shows no partially applied update, and
\* the value a get_ method returned to its caller is still what the caller
\* holds, whatever the loops and the commands have done since.
C11_ReadersHoldConsistentSnapshots ==
    /\ NoPartialStatus
    /\ history.returned # None => HeldNow = the(history.returned).value

\* What an alert says apart from its id and its timestamp.
Verdict(alert) ==
    [sensor_type |-> alert.sensor_type, type |-> alert.type,
     severity |-> alert.severity, sensor_value |-> alert.sensor_value,
     threshold_min |-> alert.threshold_min,
     threshold_max |-> alert.threshold_max,
     title |-> alert.title, message |-> alert.message]

Verdicts(produced) == [k \in 1..Len(produced) |-> Verdict(produced[k])]

\* C12: when the reading evaluated last has the channel values of the
\* reading evaluated before it, the two evaluations raised the same alerts
\* in the same order as far as channel, direction, severity, value,
\* thresholds, title and message go, whatever the time, the ledger and the
\* ids were.
C12_EvaluationIsDeterministic ==
    ( /\ history.earlier # None
      /\ the(history.evaluated).value = the(history.earlier).reading.value )
    => Verdicts(history.produced) = Verdicts(the(history.earlier).produced)

\* Two evaluations of the same channel values, a day apart, both raising
\* an alert, with other ids and another ledger.
C12_Witness ==
    /\ history.earlier # None
    /\ the(history.evaluated).value = the(history.earlier).reading.value
    /\ the(history.evaluated).timestamp # the(history.earlier).reading.timestamp
    /\ history.produced # << >>
    /\ history.produced[1].id # the(history.earlier).produced[1].id
    /\ history.before # << >>

\* C13: every drift offset lies in [-5, 5]; and a generation leaves every
\* offset at the offset it found plus one step, clamped to [-5, 5], having
\* computed every channel value of its reading from the offset it found.
C13_DriftStaysWithinLimits ==
    /\ \A c \in Channels : -Units(5) <= trends[c] /\ trends[c] <= Units(5)
    /\ LastAction = "GenerateRealisticReading" =>
         LET d == the(history.drawn)
         IN  \A c \in Channels :
               /\ trends[c] = Max2(-Units(5), Min2(Units(5),
                                                   d.trends[c] + d.step[c]))
               /\ the(current_readings).value[c]
                    = channel_value(c, hour_of_day(now), d.noise[c],
                                    d.trends[c])

\* A generation whose step took an offset beyond 5, where it was clamped,
\* and whose reading shows the offset from before the step.
C13_Witness ==
    /\ LastAction = "GenerateRealisticReading"
    /\ LET d == the(history.drawn)
       IN  /\ d.trends["humidity"] + d.step["humidity"] > Units(5)
           /\ trends["humidity"] = Units(5)
           /\ d.noise["humidity"] = 0
           /\ d.trends["humidity"] > 0
           /\ the(current_readings).value["humidity"]
                = base_values["humidity"]
                    + variation("humidity", hour_of_day(now))
                    + d.trends["humidity"]

\* C14: a tick of the irrigation loop that finds the status inactive
\* leaves every field of it as it was.
C14_TickWhileInactiveChangesNothing ==
    ( /\ LastAction = "IrrigationLoopIteration"
      /\ ~the(history.ticked).is_active )
    => \A field \in DOMAIN irrigation_status :
         irrigation_status[field] = the(history.ticked)[field]

\* A tick that found the status inactive after a run in a zone.
C14_Witness ==
    /\ LastAction = "IrrigationLoopIteration"
    /\ ~the(history.ticked).is_active
    /\ irrigation_status.last_activation # None
    /\ irrigation_status.current_zone # None

\* C15: an activate command executed while the status is inactive leaves
\* it active with start_time the time of the command, duration_minutes and
\* remaining_minutes the duration of the command, current_zone the zone of
\* the command when it names one (an empty zone_id names none) and "main"
\* otherwise, and last_activation, total_runtime_today and
\* water_usage_liters as they were.
C15_ActivateFromInactive ==
    ( /\ LastAction = "ExecuteIrrigation"
      /\ the(history.cmd).activate
      /\ ~history.prior.is_active )
    => LET command == the(history.cmd)
       IN  /\ irrigation_status.is_active
           /\ irrigation_status.start_time = Some(now)
           /\ irrigation_status.duration_minutes = command.duration_minutes
           /\ irrigation_status.remaining_minutes = command.duration_minutes
           /\ irrigation_status.current_zone =
                IF command.zone_id = None \/ command.zone_id = Some("")
                THEN Some("main") ELSE command.zone_id
           /\ irrigation_status.last_activation = history.prior.last_activation
           /\ irrigation_status.total_runtime_today
                = history.prior.total_runtime_today
           /\ irrigation_status.water_usage_liters
                = history.prior.water_usage_liters

\* An activate command naming a zone, executed after an earlier run had
\* ended, at a later time than that run began.
C15_Witness ==
    /\ LastAction = "ExecuteIrrigation"
    /\ the(history.cmd).activate
    /\ the(history.cmd).zone_id = Some("zone_a")
    /\ the(history.cmd).duration_minutes # None
    /\ ~history.prior.is_active
    /\ history.prior.last_activation # None
    /\ irrigation_status.last_activation # irrigation_status.start_time

\* The status is what leaving the run of `ran` leaves: inactive, with
\* last_activation the start_time of that run, start_time, duration_minutes
\* and remaining_minutes cleared, and current_zone as it was.
LeftRun(ran) ==
    /\ ~irrigation_status.is_active
    /\ irrigation_status.last_activation = ran.start_time
    /\ irrigation_status.start_time = None
    /\ irrigation_status.duration_minutes = None
    /\ irrigation_status.remaining_minutes = None
    /\ irrigation_status.current_zone = ran.current_zone

\* C16: a deactivate command executed while the status is active, and a
\* tick that stops an active run, both leave the status inactive with
\* last_activation the start_time of the run that ended, with start_time,
\* duration_minutes and remaining_minutes cleared and current_zone unchanged.
C16_LeavingActiveRecordsTheRun ==
    /\ ( /\ LastAction = "ExecuteIrrigation"
         /\ ~the(history.cmd).activate
         /\ history.prior.is_active )
       => LeftRun(history.prior)
    /\ ( /\ LastAction = "IrrigationLoopIteration"
         /\ the(history.ticked).is_active
         /\ ~irrigation_status.is_active )
       => LeftRun(the(history.ticked))

\* A run stopped by a tick, after an earlier run that began at another
\* time.
C16_Witness ==
    /\ LastAction = "IrrigationLoopIteration"
    /\ the(history.ticked).is_active
    /\ ~irrigation_status.is_active
    /\ the(history.ticked).last_activation # None
    /\ the(history.ticked).last_activation # irrigation_status.last_activation
    /\ irrigation_status.current_zone = Some("zone_a")

\* None, or an integer from lo to hi.
OptionalWithin(o, lo, hi) == o = None \/ (lo <= the(o) /\ the(o) <= hi)

\* A well-formed IrrigationStatus at time t: every field of its type, the
\* fields of a run present while active (duration_minutes and
\* remaining_minutes together, 1 <= remaining <= duration) and absent while
\* inactive.
WellFormedStatus(status, t) ==
    /\ status.is_active \in BOOLEAN
    /\ OptionalWithin(status.start_time, 0, t)
    /\ OptionalWithin(status.last_activation, 0, t)
    /\ status.current_zone \in {None, Some("main"), Some("zone_a")}
    /\ OptionalWithin(status.duration_minutes, 1, 180)
    /\ OptionalWithin(status.remaining_minutes, 1, 180)
    /\ status.total_runtime_today = 0
    /\ status.water_usage_liters = None
    /\ status.is_active =>
         /\ status.start_time # None
         /\ status.current_zone # None
         /\ (status.duration_minutes = None) = (status.remaining_minutes = None)
         /\ status.remaining_minutes # None =>
              the(status.remaining_minutes) <= the(status.duration_minutes)
    /\ ~status.is_active =>
         /\ status.start_time = None
         /\ status.duration_minutes = None
         /\ status.remaining_minutes = None

\* C17: in every state the status is well-formed, the tick does not raise
\* on it, and every command and the tick leave a well-formed status; a pass
\* of the irrigation loop ends in its regular sleep, not in the except
\* clause.
C17_IrrigationTransitionsAreTotal ==
    /\ WellFormedStatus(irrigation_status, now)
    /\ ~tick_raises(irrigation_status)
    /\ \A command \in Commands :
         WellFormedStatus(execute_irrigation(irrigation_status, command, now),
                          now)
    /\ WellFormedStatus(irrigation_tick(irrigation_status, now), now)
    /\ LastAction = "IrrigationLoopIteration" => tasks[LastTask].pc = "sleeping"

\* A tick that found the status active with no duration, and left it so.
C17_Witness ==
    /\ LastAction = "IrrigationLoopIteration"
    /\ the(history.ticked).is_active
    /\ the(history.ticked).remaining_minutes = None
    /\ irrigation_status = the(history.ticked)
    /\ tasks[LastTask].pc = "sleeping"

\* The places of the ledger that hold an alert of channel c.
AlertsFor(ledger, c) == {k \in 1..Len(ledger) : ledger[k].sensor_type = c}

\* The alerts of the ledger that were raised less than 24 hours ago.
WithinRetention(ledger) == SelectSeq(ledger, LAMBDA alert : Age(alert) < 24)

\* C18: an evaluation leaves in the ledger every alert it found there from
\* the last 24 hours, in its place, followed by one new record for every
\* channel that is out of range, whether or not the ledger already holds
\* alerts of that channel; the records of the ledger have distinct ids.
C18_AppendNeverDeduplicates ==
    /\ \A j, k \in 1..Len(alerts) : alerts[j].id = alerts[k].id => j = k
    /\ LastAction = "ReadingLoopIteration" =>
         LET kept == WithinRetention(history.before)
         IN  /\ SubSeq(alerts, 1, Len(kept)) = kept
             /\ \A c \in Thresholded :
                  Cardinality(AlertsFor(alerts, c))
                    = Cardinality(AlertsFor(kept, c))
                      + (IF c \in Breaches(the(history.evaluated))
                         THEN 1 ELSE 0)

\* Soil moisture out of range at two consecutive evaluations half a day
\* apart: two records of it in the ledger, the older one first.
C18_Witness ==
    /\ LastAction = "ReadingLoopIteration"
    /\ "soil_moisture" \in Breaches(the(history.evaluated))
    /\ Cardinality(AlertsFor(alerts, "soil_moisture")) = 2
    /\ Len(alerts) = 2
    /\ alerts[1].timestamp < alerts[2].timestamp
    /\ alerts[1].id # alerts[2].id

\* C19: no alert of the ledger is resolved, so get_active_alerts returns
\* the whole ledger; and an alert that an evaluation or a sweep found in the
\* ledger and did not leave there had reached the age at which that step
\* drops alerts (24 hours, 7 days), whatever its channel reads now.
C19_AlertsLeaveOnlyByAge ==
    /\ \A alert \in AlertsOf(alerts) :
         ~alert.resolved /\ alert.resolved_at = None
    /\ get_active_alerts(alerts) = alerts
    /\ LastAction = "ReadingLoopIteration" =>
         \A alert \in AlertsOf(history.before) :
           alert \notin AlertsOf(get_active_alerts(alerts))
             => Age(alert) >= 24
    /\ LastAction = "AlertLoopIteration" =>
         \A alert \in AlertsOf(history.before) :
           alert \notin AlertsOf(get_active_alerts(alerts))
             => Age(alert) >= 7 * 24

\* An evaluation found soil moisture back within its threshold and left the
\* alert of its earlier breach in the ledger.
C19_Witness ==
    /\ LastAction = "ReadingLoopIteration"
    /\ "soil_moisture" \notin Breaches(the(history.evaluated))
    /\ AlertsFor(get_active_alerts(alerts), "soil_moisture") # {}
    /\ AlertsFor(history.before, "soil_moisture") # {}

\* A SensorReading: a timestamp and a value for every channel.
IsReading(reading) ==
    /\ DOMAIN reading = {"timestamp", "value"}
    /\ DOMAIN reading.value = Channels

\* C20: in every state from construction on there is a current reading;
\* get_current_readings returns it, get_active_alerts returns the list of
\* the alerts of the ledger and get_irrigation_status returns the status,
\* before monitoring starts, while it runs, after it stops and after
\* exceptions in the loop bodies.
C20_ReadersAlwaysGetAValue ==
    /\ current_readings # None
    /\ IsReading(the(current_readings))
    /\ LastAction = "GetCurrentReadings" =>
         /\ the(history.returned).value # None
         /\ the(history.returned).value = current_readings
    /\ LastAction = "GetActiveAlerts" =>
         /\ the(history.returned).value = alerts
         /\ the(history.returned).value \in Seq(AlertsOf(alerts))
    /\ LastAction = "GetIrrigationStatus" =>
         /\ the(history.returned).value = irrigation_status
         /\ the(history.returned).value.is_active \in BOOLEAN

\* A call of get_current_readings after monitoring was stopped and every
\* loop has returned, one of them after an exception in its body.
C20_Witness ==
    /\ LastAction = "GetCurrentReadings"
    /\ history.stop_called
    /\ tasks # << >>
    /\ \A i \in TaskIds : tasks[i].pc = "done"
    /\ \E i \in TaskIds : tasks[i].raised
    /\ the(history.returned).value = current_readings

\* The last call was get_historical_data naming a sensor type that is no
\* channel.
AskedUnknownChannel ==
    /\ LastAction = "GetHistoricalData"
    /\ given(the(history.returned).method[3])
    /\ the(the(history.returned).method[3]) \notin Channels

\* C21: a historical query that names an unknown channel returns the
\* "unknown sensor type" error, whether the engine has no database, one
\* that is not initialized or one that is.
C21_UnknownChannelIsReported ==
    AskedUnknownChannel =>
      /\ "error" \in DOMAIN the(history.returned).value
      /\ the(history.returned).value.error
           = <<"Unknown sensor type: ", the(the(history.returned).method[3])>>

\* C22: while monitoring is active and the irrigation loop keeps ticking, an
\* active irrigation eventually becomes inactive, whatever activate command
\* the model accepts started it (the commands of the API are finitely many).
C22_ActiveEventuallyStops ==
    (irrigation_status.is_active /\ monitoring_active)
      ~> ~irrigation_status.is_active

\* The tasks of a loop that have not returned.
Running(loop) ==
    {i \in TaskIds : tasks[i].loop = loop /\ tasks[i].pc # "done"}

\* C23: whatever the sequence of start_monitoring and stop_monitoring calls,
\* at most one instance of each of the three loops is running.
C23_OneInstancePerLoop ==
    \A k \in 1..Len(Loops) : Cardinality(Running(Loops[k])) <= 1

\* C24: the alerts appended by the last iteration of the reading loop are in
\* the ledger, and among the alerts get_active_alerts returns, in every
\* state up to the next iteration of the reading loop, whatever sweeps of
\* the alert loop run in between.
C24_AppendedAlertsOutliveSweeps ==
    history.evaluated # None =>
      \A k \in 1..Len(history.produced) :
        /\ history.produced[k] \in AlertsOf(alerts)
        /\ history.produced[k] \in AlertsOf(get_active_alerts(alerts))

\* A sweep that ran more than six days after the reading loop appended an
\* alert and before its next iteration: the alert is still in the ledger.
C24_Witness ==
    /\ LastAction = "AlertLoopIteration"
    /\ history.evaluated # None
    /\ history.produced # << >>
    /\ now - history.produced[1].timestamp > 6 * 24
    /\ history.produced[1] \in AlertsOf(alerts)

\* The last step was the evaluation that ends an iteration of the reading
\* loop: after the write, or in the step of the generation when the call of
\* store_sensor_reading returned at once.
IterationEvaluated ==
    \/ LastAction = "ReadingLoopContinues" /\ tasks[LastTask].pc = "sleeping"
    \/ LastAction = "ReadingLoopIteration" /\ tasks[LastTask].pc = "sleeping"

\* C25: an iteration of the reading loop generates, persists, evaluates and
\* appends in this order and on one reading: from the generation to the
\* evaluation the current reading is the one the iteration generated; the
\* row a successful write adds is that reading; the evaluation that follows
\* the write is of that reading, already stored when the write succeeded;
\* and the alerts it appends carry that reading's values and end the ledger.
C25_IterationActsOnItsOwnReading ==
    /\ \A i \in TaskIds :
         tasks[i].pc \in {"storing", "stored"} =>
           /\ tasks[i].reading # None
           /\ current_readings = tasks[i].reading
           /\ the(tasks[i].reading).timestamp = now
    /\ (LastAction = "StoreEnds" /\ tasks[LastTask].store_ok) =>
         /\ the(tasks[LastTask].reading) \in db_rows
         /\ the(current_readings) \in db_rows
    /\ IterationEvaluated =>
         /\ history.evaluated = tasks[LastTask].reading
         /\ history.evaluated = current_readings
         /\ (store_suspends(db_manager) /\ tasks[LastTask].store_ok)
              => the(history.evaluated) \in db_rows
         /\ \A k \in 1..Len(history.produced) :
              history.produced[k].sensor_value
                = the(tasks[LastTask].reading).value[
                    history.produced[k].sensor_type]
         /\ Len(history.produced) <= Len(alerts)
         /\ SubSeq(alerts, Len(alerts) - Len(history.produced) + 1,
                   Len(alerts)) = history.produced

\* An iteration that stored its reading and then appended alerts for it, in
\* a run in which get_current_readings was called, the alert loop swept
\* and a command of the API activated the irrigation.
C25_Witness ==
    /\ LastAction = "ReadingLoopContinues"
    /\ tasks[LastTask].store_ok
    /\ the(tasks[LastTask].reading) \in db_rows
    /\ history.evaluated = tasks[LastTask].reading
    /\ history.produced # << >>
    /\ history.returned # None
    /\ irrigation_status.is_active
    /\ \E j \in TaskIds : tasks[j].loop = "alert" /\ tasks[j].pc = "sleeping"

\* The magnitude of a bound.
Magnitude(bound) == IF bound < 0 THEN -bound ELSE bound

\* C26: for every threshold the settings can hold, bounds of zero and below
\* included, an alert is HIGH exactly when its value lies more than 20% of
\* the magnitude of the breached bound beyond that bound, MODERATE otherwise.
C26_SeverityByMagnitudeBeyondBound ==
    \A k \in 1..Len(alerts) :
      LET a == alerts[k]
      IN  /\ a.type[2] = "low" =>
               (a.severity = "high") =
                 (10 * a.sensor_value
                    < 10 * a.threshold_min - 2 * Magnitude(a.threshold_min))
          /\ a.type[2] = "high" =>
               (a.severity = "high") =
                 (10 * a.sensor_value
                    > 10 * a.threshold_max + 2 * Magnitude(a.threshold_max))

\* The alerts of a ledger created at the cutoff of a retention or after it.
AtOrAfterCutoff(ledger, retention) ==
    SelectSeq(ledger, LAMBDA alert : alert.timestamp >= now - retention)

\* C27: a sweep removes an alert if and only if it was created strictly
\* before now - retention: the sweep of the alert loop (7 days) leaves the
\* alerts created at the cutoff or after it, unchanged and in their order,
\* and nothing else; so does the pruning of _check_thresholds (24 hours),
\* ahead of the alerts it appends.
C27_SweepRemovesStrictlyOlderOnly ==
    /\ LastAction = "AlertLoopIteration" =>
         alerts = AtOrAfterCutoff(history.before, 7 * 24)
    /\ LastAction = "ReadingLoopIteration" =>
         alerts = AtOrAfterCutoff(history.before, 24) \o history.produced

\* The steps of the reading loop and of the alert loop.
ReadingAndSweepSteps ==
    {"ReadingLoopIteration", "StoreEnds", "ReadingLoopContinues",
     "AlertLoopIteration"}

\* The steps of the irrigation controller.
IrrigationSteps == {"ExecuteIrrigation", "IrrigationLoopIteration"}

\* C28: a step of the reading loop or of the alert loop leaves every field
\* of the irrigation status as it was; a command or a tick of the irrigation
\* controller leaves the current reading, the drift and the ledger as they
\* were; the evaluation after a write leaves the reading as it was, and
\* every alert is stamped with the bounds of the settings of construction.
C28_ComponentsKeepToTheirState ==
    [][ /\ history'.last[1] \in ReadingAndSweepSteps
          => irrigation_status' = irrigation_status
        /\ history'.last[1] \in IrrigationSteps
          => UNCHANGED <<current_readings, trends, alerts, next_id>>
        /\ history'.last[1] = "ReadingLoopContinues"
          => UNCHANGED <<current_readings, trends>>
        /\ \A k \in 1..Len(alerts') :
             /\ alerts'[k].threshold_min
                  = ThresholdSettings[alerts'[k].sensor_type].min
             /\ alerts'[k].threshold_max
                  = ThresholdSettings[alerts'[k].sensor_type].max
      ]_vars

\* A sweep of a ledger that holds alerts, run while the irrigation is
\* active, after a tick of the irrigation loop, with the reading loop's
\* write pending.
C28_Witness ==
    /\ LastAction = "AlertLoopIteration"
    /\ alerts # << >>
    /\ irrigation_status.is_active
    /\ history.ticked # None
    /\ SuspendedInWrite

\* C29: whenever the irrigation is active, remaining_minutes and
\* duration_minutes are integers with
\* 1 <= remaining_minutes <= duration_minutes <= 180.
C29_ActiveRunHasBoundedMinutes ==
    irrigation_status.is_active =>
      /\ irrigation_status.remaining_minutes # None
      /\ irrigation_status.duration_minutes # None
      /\ 1 <= the(irrigation_status.remaining_minutes)
      /\ the(irrigation_status.remaining_minutes)
           <= the(irrigation_status.duration_minutes)
      /\ the(irrigation_status.duration_minutes) <= 180

\* C30: from the status of construction on, whenever the irrigation is not
\* active, start_time, duration_minutes and remaining_minutes are all None.
C30_InactiveStatusHasNoRunFields ==
    ~irrigation_status.is_active =>
      /\ irrigation_status.start_time = None
      /\ irrigation_status.duration_minutes = None
      /\ irrigation_status.remaining_minutes = None

\* The irrigation loop has just stopped a run at the end of its countdown:
\* the status is inactive and remembers when the run started.
C30_Witness ==
    /\ LastAction = "IrrigationLoopIteration"
    /\ history.ticked # None
    /\ the(history.ticked).is_active
    /\ ~irrigation_status.is_active
    /\ irrigation_status.last_activation # None
    /\ irrigation_status.remaining_minutes = None

\* The last step was a tick of the irrigation loop that ended a run.
AutoStopped ==
    /\ LastAction = "IrrigationLoopIteration"
    /\ the(history.ticked).is_active
    /\ ~irrigation_status.is_active

\* C31: a tick ends a run only when the ticks since the most recent command
\* number the duration of that command, an activate; the decrement and the
\* auto-stop are one step, so no state shows an active run counted down to
\* 0; and the run of an activate command stays active until its own ticks
\* are used up, whatever run the command found.
C31_AutoStopEndsTheRunThatExpired ==
    /\ AutoStopped =>
         /\ history.cmd # None
         /\ the(history.cmd).activate
         /\ the(history.cmd).duration_minutes = Some(history.ticks)
         /\ the(history.ticked).remaining_minutes = Some(1)
         /\ the(history.ticked).duration_minutes = Some(history.ticks)
    /\ irrigation_status.is_active =>
         \/ irrigation_status.remaining_minutes = None
         \/ the(irrigation_status.remaining_minutes) >= 1
    /\ \A d \in 1..MaxDuration :
         (ActivatedFor(d) /\ history.ticks < d) => irrigation_status.is_active

\* A tick has just ended the run of a command that had replaced a run with
\* one minute left and a longer duration: the tick that would have ended
\* the earlier run counted down the later one instead.
C31_Witness ==
    /\ AutoStopped
    /\ history.prior.is_active
    /\ history.prior.remaining_minutes = Some(1)
    /\ history.prior.duration_minutes # Some(1)
    /\ \E d \in 2..MaxDuration : ActivatedFor(d) /\ history.ticks = d

\* C32: last_activation changes only in a step that ends a run, to the
\* start_time of that run; every other step, a deactivate command that finds
\* the status inactive included, leaves it as it was, so once set it is
\* never None again.
C32_LastActivationIsTheLastEndedRun ==
    [][ /\ IF irrigation_status.is_active /\ ~irrigation_status'.is_active
           THEN irrigation_status'.last_activation
                  = irrigation_status.start_time
           ELSE irrigation_status'.last_activation
                  = irrigation_status.last_activation
        /\ irrigation_status.last_activation # None
             => irrigation_status'.last_activation # None
      ]_vars

\* The alerts of the ledger that the step leaves out of it.
Dropped == {alert \in AlertsOf(alerts) : alert \notin AlertsOf(alerts')}

\* C33: every alert of the ledger stays in it through every step of the
\* reading loop and of the alert loop, in whatever order they run, until it
\* is older than the retention of the step that removes it: 24 hours for
\* the evaluation of the reading loop, 7 days for the sweep.
C33_NoAlertLostBeforeItsRetention ==
    [][ /\ history'.last[1] \in {"ReadingLoopIteration", "ReadingLoopContinues"}
          => \A alert \in Dropped : now - alert.timestamp > 24
        /\ history'.last[1] = "AlertLoopIteration"
          => \A alert \in Dropped : now - alert.timestamp > 7 * 24
        /\ history'.last[1] \notin {"ReadingLoopIteration",
                                    "ReadingLoopContinues",
                                    "AlertLoopIteration"}
          => Dropped = {}
      ]_vars

\* C34: right after an evaluation of the reading loop the ledger holds no
\* alert created 24 hours or more before; so an alert that the 7-day sweep
\* removes was less than 24 hours old at the last evaluation, if there was
\* one: none has completed since the alert turned 24 hours old.
C34_SweepRemovesOnlyWhatNoEvaluationSaw ==
    /\ IterationEvaluated =>
         \A alert \in AlertsOf(alerts) : Age(alert) < 24
    /\ (LastAction = "AlertLoopIteration" /\ history.evaluated # None) =>
         \A alert \in AlertsOf(history.before) :
           alert \notin AlertsOf(alerts) =>
             /\ Age(alert) >= 7 * 24
             /\ the(history.evaluated).timestamp < alert.timestamp + 24

\* A sweep has just removed an alert: it is the first step of either loop
\* since the evaluation that appended it, seven days or more ago.
C34_Witness ==
    /\ LastAction = "AlertLoopIteration"
    /\ history.evaluated # None
    /\ \E alert \in AlertsOf(history.before) :
         /\ alert \notin AlertsOf(alerts)
         /\ the(history.evaluated).timestamp = alert.timestamp

\* Every loop stop_monitoring was to end has returned.
AllLoopsExited ==
    /\ history.stop_called
    /\ tasks # << >>
    /\ \A i \in TaskIds : tasks[i].pc = "done"

\* C35: when stop_monitoring was called while irrigation was active (no
\* command arrives after the stop), irrigation is inactive once the three
\* loops have exited: no run is left with its countdown where it stood.
C35_StoppedEngineLeavesIrrigationOff ==
    (AllLoopsExited /\ irrigation_status.remaining_minutes # None)
      => ~irrigation_status.is_active

=============================================================================
